---- MODULE Spec2Model ----
(***************************************************************************)
(* Model of src/main.py: the one-shot pipeline                             *)
(*   load_config -> setup_logging -> get_graphql_data                      *)
(*               -> process_response_data -> export_to_csv                 *)
(* run by main().                                                          *)
(*                                                                         *)
(* Representation.                                                         *)
(*  - A Python dict is a TLA+ function from key strings to values; a key   *)
(*    the dict lacks is a key outside its DOMAIN, and d[k] on such a key   *)
(*    is the KeyError the code would raise.  The __typename keys the       *)
(*    query asks for are never read by the code and are left out.          *)
(*  - Text that ends up in the CSV file (ids, names, numbers, neighbour    *)
(*    names) is a sequence of atoms.  An atom is a TLA+ string holding     *)
(*    either one character that matters to csv or to the ", " delimiter    *)
(*    (comma, double quote, space, CR, LF, a digit) or a run of other      *)
(*    characters.  The file is the sequence of atoms written to it.        *)
(*  - Opaque text (endpoint, token, time bounds, paths) is a TLA+ string.  *)
(***************************************************************************)
EXTENDS Integers, Sequences, FiniteSets, TLC

(***************************************************************************)
(* Bounds of the model.                                                    *)
(***************************************************************************)
\* Largest number of entities in data.entities.results (the pipeline).
MaxEntities == 2
\* Largest number of records handed to export_to_csv (the export alone).
MaxRecords == 2
\* Largest number of neighbour names in one edge list (the export alone).
MaxEdges == 2

(***************************************************************************)
(* Characters and text.                                                    *)
(***************************************************************************)
COMMA == ","
QUOTE == "\""
SPACE == " "
CR == "\r"
LF == "\n"

\* The separator of ', '.join(...), main.py lines 163-165.
JoinSep == <<COMMA, SPACE>>

Reverse(s) == [i \in 1..Len(s) |-> s[Len(s) + 1 - i]]

DigitAtom(d) == CASE d = 0 -> "0" [] d = 1 -> "1" [] d = 2 -> "2" [] d = 3 -> "3"
                  [] d = 4 -> "4" [] d = 5 -> "5" [] d = 6 -> "6" [] d = 7 -> "7"
                  [] d = 8 -> "8" [] d = 9 -> "9"

RECURSIVE NatStr(_)
NatStr(n) == IF n < 10 THEN <<DigitAtom(n)>>
             ELSE NatStr(n \div 10) \o <<DigitAtom(n % 10)>>

\* str(n) of a Python int, as csv.writer applies it to a non-string field.
IntStr(n) == IF n < 0 THEN <<"-">> \o NatStr(-n) ELSE NatStr(n)

RECURSIVE JoinFrom(_, _)
JoinFrom(names, i) ==
    IF i > Len(names) THEN <<>>
    ELSE JoinSep \o names[i] \o JoinFrom(names, i + 1)

\* ', '.join(names): the empty list gives the empty text.
Join(names) == IF names = <<>> THEN <<>> ELSE names[1] \o JoinFrom(names, 2)

(***************************************************************************)
(* JSON null (Python None) and the values of applicationType.              *)
(***************************************************************************)
None == [kind |-> "None"]
Str(text) == [kind |-> "str", text |-> text]

\* The default of result.get('applicationType', 'N/A'), main.py line 127.
NA == Str(<<"N/A">>)

\* An empty dict {}.
EmptyDict == [k \in {} |-> 0]

(***************************************************************************)
(* Exceptions.  NoExc stands for "nothing raised".                         *)
(***************************************************************************)
NoExc == [type |-> "none"]
\* d[key] on a dict without the key.
KeyError(key) == [type |-> "KeyError", key |-> key]
\* open() or a write failing.
OSError == [type |-> "OSError"]
\* requests.post failing before any response arrives.
ConnectionError == [type |-> "ConnectionError"]
\* load_config: the file is missing or is not JSON.
ConfigError == [type |-> "ConfigError"]

(***************************************************************************)
(* get_graphql_data: the query document and the failure on a non-200.      *)
(***************************************************************************)
\* "limit: 100" of the query document.
QueryLimit == 100
\* The status get_graphql_data accepts.
HttpOk == 200

\* The query text: the fixed template with the two time bounds put in.
Query(start_time, end_time) ==
    [scope |-> "SERVICE", limit |-> QueryLimit,
     startTime |-> start_time, endTime |-> end_time]

\* The request of requests.post(endpoint, headers=headers, json={'query': query}).
Request(endpoint, token, query) ==
    [method |-> "POST", url |-> endpoint,
     headers |-> [Authorization |-> token, ContentType |-> "application/json"],
     json |-> [query |-> query]]

\* raise Exception(f"Query failed to run by returning code of {status}. {query}")
QueryFailed(status, query) == [type |-> "Exception", status |-> status, query |-> query]

(***************************************************************************)
(* process_response_data.                                                  *)
(***************************************************************************)
Has(d, key) == key \in DOMAIN d

\* The key of the first failing lookup of result[field][agg]['value'], or "".
MetricMissing(result, field, agg) ==
    IF ~Has(result, field) THEN field
    ELSE IF ~Has(result[field], agg) THEN agg
    ELSE IF ~Has(result[field][agg], "value") THEN "value"
    ELSE ""

RECURSIVE EdgesMissingFrom(_, _)
EdgesMissingFrom(edges, i) ==
    IF i > Len(edges) THEN ""
    ELSE IF ~Has(edges[i], "neighbor") THEN "neighbor"
    ELSE IF ~Has(edges[i]["neighbor"], "name") THEN "name"
    ELSE EdgesMissingFrom(edges, i + 1)

\* The key of the first failing lookup of
\* [edge['neighbor']['name'] for edge in result[field]['results']], or "".
EdgeListMissing(result, field) ==
    IF ~Has(result, field) THEN field
    ELSE IF ~Has(result[field], "results") THEN "results"
    ELSE EdgesMissingFrom(result[field]["results"], 1)

\* The lookups of the dict display of lines 121-131, in evaluation order.
LookupOrder(result) ==
    << IF Has(result, "entityId") THEN "" ELSE "entityId",
       IF Has(result, "name") THEN "" ELSE "name",
       MetricMissing(result, "duration", "p99"),
       MetricMissing(result, "errorCount", "avg"),
       MetricMissing(result, "numCalls", "avg"),
       EdgeListMissing(result, "outgoingEdges_SERVICE"),
       EdgeListMissing(result, "outgoingEdges_BACKEND"),
       EdgeListMissing(result, "incomingEdges_SERVICE") >>

RECURSIVE FirstNonEmpty(_)
FirstNonEmpty(keys) ==
    IF keys = <<>> THEN ""
    ELSE IF Head(keys) # "" THEN Head(keys)
    ELSE FirstNonEmpty(Tail(keys))

\* The key whose KeyError building the record of one entity raises, or "".
MissingKey(result) == FirstNonEmpty(LookupOrder(result))

\* [edge['neighbor']['name'] for edge in edges]
NeighborNames(edges) == [i \in 1..Len(edges) |-> edges[i]["neighbor"]["name"]]

\* result.get('applicationType') or 'N/A': the default also replaces a null.
ApplicationTypeOrDefault(result) ==
    IF Has(result, "applicationType") /\ result["applicationType"] # None
    THEN result["applicationType"] ELSE NA

\* result.get('applicationType', 'N/A')
ApplicationTypeOf(result) ==
    IF Has(result, "applicationType") THEN result["applicationType"] ELSE NA

\* The dict display with errorCount_avg read from the duration metric.
ServiceInfoWrongMetric(result) ==
    [entityId |-> result["entityId"],
     name |-> result["name"],
     duration_p99 |-> result["duration"]["p99"]["value"],
     errorCount_avg |-> result["duration"]["p99"]["value"],
     numCalls_avg |-> result["numCalls"]["avg"]["value"],
     applicationType |-> ApplicationTypeOf(result),
     outgoingEdges_SERVICE |-> NeighborNames(result["outgoingEdges_SERVICE"]["results"]),
     outgoingEdges_BACKEND |-> NeighborNames(result["outgoingEdges_BACKEND"]["results"]),
     incomingEdges_SERVICE |-> NeighborNames(result["incomingEdges_SERVICE"]["results"])]

\* The dict display of lines 121-131, for an entity with every looked-up key.
ServiceInfo(result) ==
    [entityId |-> result["entityId"],
     name |-> result["name"],
     duration_p99 |-> result["duration"]["p99"]["value"],
     errorCount_avg |-> result["errorCount"]["avg"]["value"],
     numCalls_avg |-> result["numCalls"]["avg"]["value"],
     applicationType |-> ApplicationTypeOf(result),
     outgoingEdges_SERVICE |-> NeighborNames(result["outgoingEdges_SERVICE"]["results"]),
     outgoingEdges_BACKEND |-> NeighborNames(result["outgoingEdges_BACKEND"]["results"]),
     incomingEdges_SERVICE |-> NeighborNames(result["incomingEdges_SERVICE"]["results"])]

RECURSIVE InsertAscending(_, _)
\* x put into the ascending sequence after every element whose key is not
\* larger: the insertion step of a stable sort.
InsertAscending(sorted, x) ==
    IF sorted = <<>> THEN <<x>>
    ELSE IF Head(sorted).numCalls_avg <= x.numCalls_avg
         THEN <<Head(sorted)>> \o InsertAscending(Tail(sorted), x)
         ELSE <<x>> \o sorted

RECURSIVE StableSortAscending(_)
StableSortAscending(s) ==
    IF s = <<>> THEN <<>>
    ELSE InsertAscending(StableSortAscending(SubSeq(s, 1, Len(s) - 1)), s[Len(s)])

\* A descending sort that is not stable: sort ascending, then reverse.
SortDescendingUnstable(s) == Reverse(StableSortAscending(s))

\* services_info.sort(key=lambda x: x['numCalls_avg'], reverse=True).
\* list.sort with reverse=True reverses the list, sorts it ascending with a
\* stable sort and reverses the outcome, which keeps equal keys in input order.
SortByNumCallsDescending(s) == Reverse(StableSortAscending(Reverse(s)))

RECURSIVE FirstFailure(_, _)
\* The KeyError key of the first entity of results, from index i on, whose
\* record cannot be built, or "".
FirstFailure(results, i) ==
    IF i > Len(results) THEN ""
    ELSE IF MissingKey(results[i]) # "" THEN MissingKey(results[i])
    ELSE FirstFailure(results, i + 1)

\* The key whose lookup fails in data['data']['entities']['results'], or "".
ResultsMissing(data) ==
    IF ~Has(data, "data") THEN "data"
    ELSE IF ~Has(data["data"], "entities") THEN "entities"
    ELSE IF ~Has(data["data"]["entities"], "results") THEN "results"
    ELSE ""

\* A transformer that skips the entities whose record cannot be built.
process_response_data_skipping(data) ==
    IF ResultsMissing(data) # ""
    THEN [raised |-> KeyError(ResultsMissing(data)), value |-> <<>>]
    ELSE LET results == data["data"]["entities"]["results"]
             usable == SelectSeq(results, LAMBDA e : MissingKey(e) = "")
         IN  [raised |-> NoExc,
              value |-> SortByNumCallsDescending(
                            [i \in 1..Len(usable) |-> ServiceInfo(usable[i])])]

\* process_response_data(data): [raised |-> NoExc, value |-> the sorted records]
\* or [raised |-> the KeyError, value |-> <<>>] (nothing is returned).
process_response_data(data) ==
    IF ResultsMissing(data) # ""
    THEN [raised |-> KeyError(ResultsMissing(data)), value |-> <<>>]
    ELSE LET results == data["data"]["entities"]["results"]
             missing == FirstFailure(results, 1)
         IN IF missing # ""
            THEN [raised |-> KeyError(missing), value |-> <<>>]
            ELSE [raised |-> NoExc,
                  value |-> SortByNumCallsDescending(
                                [i \in 1..Len(results) |-> ServiceInfo(results[i])])]

(***************************************************************************)
(* export_to_csv: the rows csv.writer writes.                              *)
(***************************************************************************)
\* The header row of lines 143-147.
Headers ==
    << <<"Entity", SPACE, "ID">>,
       <<"Service", SPACE, "Name">>,
       <<"Duration", SPACE, "P99">>,
       <<"Error", SPACE, "Count", SPACE, "Avg">>,
       <<"Number", SPACE, "of", SPACE, "Calls", SPACE, "Avg">>,
       <<"Application", SPACE, "Type">>,
       <<"Outgoing", SPACE, "Services">>,
       <<"Outgoing", SPACE, "Backends">>,
       <<"Incoming", SPACE, "Services">> >>

\* The text csv.writer writes for a value that is None or a str.
CsvText(v) == IF v = None THEN <<>> ELSE v.text

\* csv.writer quotes a field (QUOTE_MINIMAL) when it holds the delimiter,
\* the quote character or a character of the line terminator.
NeedsQuote(text) == \E i \in 1..Len(text) : text[i] \in {COMMA, QUOTE, CR, LF}

RECURSIVE DoubleQuotes(_)
DoubleQuotes(text) ==
    IF text = <<>> THEN <<>>
    ELSE (IF Head(text) = QUOTE THEN <<QUOTE, QUOTE>> ELSE <<Head(text)>>)
         \o DoubleQuotes(Tail(text))

\* A field written as it is, never quoted.
CsvFieldUnquoted(text) == text

\* One field as csv.writer writes it.
CsvField(text) ==
    IF NeedsQuote(text) THEN <<QUOTE>> \o DoubleQuotes(text) \o <<QUOTE>> ELSE text

RECURSIVE CsvFieldsFrom(_, _)
CsvFieldsFrom(fields, i) ==
    IF i > Len(fields) THEN <<>>
    ELSE <<COMMA>> \o CsvField(fields[i]) \o CsvFieldsFrom(fields, i + 1)

\* writer.writerow(fields): the fields joined by commas, then CR LF.  A row
\* of one empty field is written as "" so that it is not an empty line.
CsvRow(fields) ==
    (IF fields = <<>> THEN <<>>
     ELSE IF Len(fields) = 1 /\ fields[1] = <<>> THEN <<QUOTE, QUOTE>>
     ELSE CsvField(fields[1]) \o CsvFieldsFrom(fields, 2))
    \o <<CR, LF>>

\* The list handed to writer.writerow for one record, lines 156-166.
RowFields(service) ==
    << service.entityId,
       service.name,
       IntStr(service.duration_p99),
       IntStr(service.errorCount_avg),
       IntStr(service.numCalls_avg),
       CsvText(service.applicationType),
       Join(service.outgoingEdges_SERVICE),
       Join(service.outgoingEdges_BACKEND),
       Join(service.incomingEdges_SERVICE) >>

\* The output file: absent, or present with its content.
AbsentFile == [exists |-> FALSE, content |-> <<>>]

\* open(filename, mode='a'): the content is kept.
OpenForAppend(file) == [exists |-> TRUE, content |-> file.content]

\* open(filename, mode='w', newline=''): the file is created or emptied.
OpenForWrite(file) == [exists |-> TRUE, content |-> <<>>]

(***************************************************************************)
(* Log entries: the level, the fixed part of the message and what the      *)
(* message carries (an exception, a status, a file name).                  *)
(***************************************************************************)
LogEntry(level, message, detail) == [level |-> level, message |-> message, detail |-> detail]

QuerySucceededEntry == LogEntry("INFO", "GraphQL query executed successfully.", NoExc)
QueryFailedEntry(status) ==
    LogEntry("ERROR", "Query failed with status code", [type |-> "status", status |-> status])
ExportedEntry(filename) ==
    LogEntry("INFO", "Service dependency information has been successfully exported to",
             [type |-> "file", name |-> filename])
WriteFailedEntry(e) == LogEntry("ERROR", "Failed to write CSV file", e)
ErrorOccurredEntry(e) == LogEntry("ERROR", "An error occurred", e)

\* get_graphql_data after the response arrived, lines 108-113:
\* what is logged, what is raised and what is returned.
ResponseOutcomeAnyStatus(status, body, query) ==
    [log |-> QuerySucceededEntry, raised |-> NoExc, value |-> body]

ResponseOutcome(status, body, query) ==
    IF status = HttpOk
    THEN [log |-> QuerySucceededEntry, raised |-> NoExc, value |-> body]
    ELSE [log |-> QueryFailedEntry(status), raised |-> QueryFailed(status, query),
          value |-> EmptyDict]

\* The handler of export_to_csv, lines 168-170, swallowing the exception.
ExportHandlerSwallows(e) == [log |-> WriteFailedEntry(e), raised |-> NoExc]

\* The handler of export_to_csv, lines 168-170: log, then raise again.
ExportHandler(e) == [log |-> WriteFailedEntry(e), raised |-> e]

\* A handler "except KeyError" instead of "except Exception".
CatchesKeyErrorOnly(e) == e.type = "KeyError"

\* "except Exception" of main, line 194: every exception the three stages raise.
Catches(e) == e.type \in {"KeyError", "OSError", "ConnectionError", "Exception"}

(***************************************************************************)
(* The inputs of a run: the configuration file, the response of the        *)
(* endpoint and the output file found on disk.                             *)
(***************************************************************************)
\* d without key.
Without(d, key) == [k \in DOMAIN d \ {key} |-> d[k]]

\* The default of config.get("log_file", "service_dependency.log"), line 178.
DefaultLogFile == "service_dependency.log"

FullConfig ==
    [graphql_endpoint |-> "https://endpoint/graphql", bearer_token |-> "Bearer t",
     start_time |-> "t0", end_time |-> "t1",
     output_csv |-> "out.csv", log_file |-> "run.log"]

\* The configurations a run may load: every key, no log_file (the optional
\* key), no graphql_endpoint, no output_csv.
Configs ==
    {FullConfig, Without(FullConfig, "log_file"),
     Without(FullConfig, "graphql_endpoint"), Without(FullConfig, "output_csv")}

\* The statuses the endpoint answers with.
Statuses == {HttpOk, 404, 500}

\* Values of numCalls.avg.value: two, so that results hold ties and non-ties.
CallValues == {10, 500}

\* Values of applicationType: the key absent, a string, JSON null.
AppTypeChoices == {"absent", "web", "null"}

\* The three edge collections of an entity: all empty, or all filled.
EdgeChoices == {"none", "some"}

\* What an entity lacks: nothing, or one metric at one of its three levels.
Defects ==
    {<<field, level>> : field \in {"duration", "errorCount", "numCalls"},
                        level \in {"metric", "aggregate", "value"}}

Shapes ==
    {[calls |-> c, app |-> a, edges |-> e, defect |-> <<>>] :
        c \in CallValues, a \in AppTypeChoices, e \in EdgeChoices}
    \cup {[calls |-> 10, app |-> "absent", edges |-> "none", defect |-> d] : d \in Defects}

\* An edge collection as the endpoint returns it.
EdgeCollection(names) ==
    [results |-> [i \in 1..Len(names) |->
                    [neighbor |-> [entityId |-> <<"id:">> \o names[i], name |-> names[i]]]]]

EdgeNames(choice, field) ==
    IF choice = "none" THEN <<>>
    ELSE CASE field = "outgoingEdges_SERVICE" -> << <<"svc-b">>, <<"svc-c">> >>
           [] field = "outgoingEdges_BACKEND" -> << <<"db", COMMA, "1">> >>
           [] field = "incomingEdges_SERVICE" -> << <<"svc-c">>, <<"svc-b">> >>

AggregateOf(field) == IF field = "duration" THEN "p99" ELSE "avg"

\* A metric sub-object {agg: {value: v}}.
Metric(field, v) == [a \in {AggregateOf(field)} |-> [value |-> v]]

\* The i-th entity of a result list, of the given shape.  Ids and names are
\* unique per position; metric values are integers.
Entity(i, shape) ==
    LET base ==
            [entityId |-> <<"e", DigitAtom(i)>>,
             name |-> <<"svc-", DigitAtom(i)>>,
             duration |-> Metric("duration", 120 + i),
             errorCount |-> Metric("errorCount", i - 1),
             numCalls |-> Metric("numCalls", shape.calls),
             applicationType |-> IF shape.app = "null" THEN None ELSE Str(<<shape.app>>),
             outgoingEdges_SERVICE |->
                 EdgeCollection(EdgeNames(shape.edges, "outgoingEdges_SERVICE")),
             outgoingEdges_BACKEND |->
                 EdgeCollection(EdgeNames(shape.edges, "outgoingEdges_BACKEND")),
             incomingEdges_SERVICE |->
                 EdgeCollection(EdgeNames(shape.edges, "incomingEdges_SERVICE"))]
        typed == IF shape.app = "absent" THEN Without(base, "applicationType") ELSE base
    IN  IF shape.defect = <<>> THEN typed
        ELSE LET field == shape.defect[1]
                 level == shape.defect[2]
             IN  CASE level = "metric" -> Without(typed, field)
                   [] level = "aggregate" -> [typed EXCEPT ![field] = EmptyDict]
                   [] level = "value" ->
                        [typed EXCEPT ![field] = [a \in {AggregateOf(field)} |-> EmptyDict]]

\* A response body without the data key (a GraphQL error answer).
ErrorBody == [errors |-> "error"]

BodyOf(results) == [data |-> [entities |-> [results |-> results]]]

\* The bodies that come with a status: with 200, a result list of up to
\* MaxEntities entities or an answer without data.
Bodies(st) ==
    IF st = HttpOk
    THEN {BodyOf([i \in 1..Len(f) |-> Entity(i, f[i])]) :
             f \in UNION {[1..n -> Shapes] : n \in 0..MaxEntities}} \cup {ErrorBody}
    ELSE {ErrorBody, BodyOf(<<>>)}

\* What the output file held before the run, when it existed.
OldFile == [exists |-> TRUE, content |-> <<"old", CR, LF>>]

(***************************************************************************)
(* The state of a run of main().                                           *)
(***************************************************************************)
VARIABLES
    pc,             \* where main is: load_config, setup_logging, fetch, transform,
                    \* call_export, open, write_header, write_rows, except,
                    \* done (main returned), exited (an exception left main)
    config,         \* the loaded configuration
    logFile,        \* the file logging writes to; "" before setup_logging
    logs,           \* the entries this run appended to the log
    sent,           \* the HTTP requests sent
    status,         \* the status of the response; 0 before any response
    data,           \* the parsed body get_graphql_data returned
    services_info,  \* the records process_response_data returned
    csvFile,        \* the output file
    csvFile0,       \* the output file as the run found it
    opens,          \* how many times the output file was opened for writing
    written,        \* the records export_to_csv has written
    exc,            \* the exception on its way to main's handler
    escaped,        \* the exception that left main
    stages          \* the stages main has entered, in order

vars == <<pc, config, logFile, logs, sent, status, data, services_info,
          csvFile, csvFile0, opens, written, exc, escaped, stages>>

Init ==
    /\ pc = "load_config"
    /\ config = EmptyDict
    /\ logFile = ""
    /\ logs = <<>>
    /\ sent = <<>>
    /\ status = 0
    /\ data = EmptyDict
    /\ services_info = <<>>
    /\ csvFile \in {AbsentFile, OldFile}
    /\ csvFile0 = csvFile
    /\ opens = 0
    /\ written = 0
    /\ exc = NoExc
    /\ escaped = NoExc
    /\ stages = <<>>

(***************************************************************************)
(* main(), one action per step.                                            *)
(***************************************************************************)
\* Line 175, config = load_config(), outside the try: a missing or
\* unparsable file raises out of main before logging is set up.
LoadConfig ==
    /\ pc = "load_config"
    /\ stages' = Append(stages, "LoadConfig")
    /\ \/ /\ escaped' = ConfigError
          /\ pc' = "exited"
          /\ UNCHANGED config
       \/ /\ \E c \in Configs : config' = c
          /\ pc' = "setup_logging"
          /\ UNCHANGED escaped
    /\ UNCHANGED <<logFile, logs, sent, status, data, services_info,
                   csvFile, csvFile0, opens, written, exc>>

\* main going on to the fetch with logging not set up.
SetupLoggingSkipped ==
    /\ pc = "setup_logging"
    /\ stages' = Append(stages, "SetupLogging")
    /\ pc' = "fetch"
    /\ UNCHANGED <<config, logFile, logs, sent, status, data, services_info,
                   csvFile, csvFile0, opens, written, exc, escaped>>

\* Line 178, setup_logging(config.get("log_file", "service_dependency.log")).
SetupLogging ==
    /\ pc = "setup_logging"
    /\ stages' = Append(stages, "SetupLogging")
    /\ logFile' = IF Has(config, "log_file") THEN config["log_file"] ELSE DefaultLogFile
    /\ pc' = "fetch"
    /\ UNCHANGED <<config, logs, sent, status, data, services_info,
                   csvFile, csvFile0, opens, written, exc, escaped>>

\* The first key of lines 183-186 the configuration lacks, or "".
FetchArgMissing ==
    FirstNonEmpty([i \in 1..4 |->
        LET key == <<"graphql_endpoint", "bearer_token", "start_time", "end_time">>[i]
        IN  IF Has(config, key) THEN "" ELSE key])

\* Lines 182-187 with get_graphql_data, lines 22-113: one POST, then the
\* response decides.  requests.post may also raise without a response.
Fetch ==
    /\ pc = "fetch"
    /\ stages' = Append(stages, "Fetch")
    /\ IF FetchArgMissing # ""
       THEN /\ exc' = KeyError(FetchArgMissing)
            /\ pc' = "except"
            /\ UNCHANGED <<sent, status, data, logs>>
       ELSE LET query == Query(config["start_time"], config["end_time"])
            IN  /\ sent' = Append(sent, Request(config["graphql_endpoint"],
                                                config["bearer_token"], query))
                /\ \/ /\ exc' = ConnectionError
                      /\ pc' = "except"
                      /\ UNCHANGED <<status, data, logs>>
                   \/ \E st \in Statuses : \E body \in Bodies(st) :
                        LET o == ResponseOutcome(st, body, query)
                        IN  /\ status' = st
                            /\ logs' = Append(logs, o.log)
                            /\ IF o.raised = NoExc
                               THEN /\ data' = o.value
                                    /\ pc' = "transform"
                                    /\ UNCHANGED exc
                               ELSE /\ exc' = o.raised
                                    /\ pc' = "except"
                                    /\ UNCHANGED data
    /\ UNCHANGED <<config, logFile, services_info, csvFile, csvFile0, opens,
                   written, escaped>>

\* Line 190, services_info = process_response_data(data).
Transform ==
    /\ pc = "transform"
    /\ stages' = Append(stages, "Transform")
    /\ LET r == process_response_data(data)
       IN  IF r.raised = NoExc
           THEN /\ services_info' = r.value
                /\ pc' = "call_export"
                /\ UNCHANGED exc
           ELSE /\ exc' = r.raised
                /\ pc' = "except"
                /\ UNCHANGED services_info
    /\ UNCHANGED <<config, logFile, logs, sent, status, data,
                   csvFile, csvFile0, opens, written, escaped>>

\* Line 193, the call export_to_csv(services_info, config['output_csv']):
\* the argument is looked up before export_to_csv is entered.
CallExport ==
    /\ pc = "call_export"
    /\ stages' = Append(stages, "Export")
    /\ IF Has(config, "output_csv")
       THEN /\ pc' = "open"
            /\ UNCHANGED exc
       ELSE /\ exc' = KeyError("output_csv")
            /\ pc' = "except"
    /\ UNCHANGED <<config, logFile, logs, sent, status, data, services_info,
                   csvFile, csvFile0, opens, written, escaped>>

\* Lines 151-152, open(filename, mode='w', newline='').
ExportOpen ==
    /\ pc = "open"
    /\ csvFile' = OpenForWrite(csvFile)
    /\ opens' = opens + 1
    /\ written' = 0
    /\ pc' = "write_header"
    /\ UNCHANGED <<config, logFile, logs, sent, status, data, services_info,
                   csvFile0, exc, escaped, stages>>

\* Line 153, writer.writerow(headers).
ExportHeader ==
    /\ pc = "write_header"
    /\ csvFile' = [csvFile EXCEPT !.content = @ \o CsvRow(Headers)]
    /\ pc' = "write_rows"
    /\ UNCHANGED <<config, logFile, logs, sent, status, data, services_info,
                   csvFile0, opens, written, exc, escaped, stages>>

\* Lines 155-166, one turn of the loop: the next record's row.
ExportRow ==
    /\ pc = "write_rows"
    /\ written < Len(services_info)
    /\ csvFile' = [csvFile EXCEPT
                      !.content = @ \o CsvRow(RowFields(services_info[written + 1]))]
    /\ written' = written + 1
    /\ UNCHANGED <<pc, config, logFile, logs, sent, status, data, services_info,
                   csvFile0, opens, exc, escaped, stages>>

\* The loop is over: the file is closed, line 167 logs, export_to_csv and
\* then main return.
ExportClose ==
    /\ pc = "write_rows"
    /\ written = Len(services_info)
    /\ logs' = Append(logs, ExportedEntry(config["output_csv"]))
    /\ pc' = "done"
    /\ UNCHANGED <<config, logFile, sent, status, data, services_info,
                   csvFile, csvFile0, opens, written, exc, escaped, stages>>

\* open() or a write raises: the handler of lines 168-170 runs.  The file
\* keeps what was written before the failing call.
ExportFail ==
    /\ pc \in {"open", "write_header", "write_rows"}
    /\ LET h == ExportHandler(OSError)
       IN  /\ logs' = Append(logs, h.log)
           /\ exc' = h.raised
           /\ pc' = IF h.raised = NoExc THEN "done" ELSE "except"
    /\ UNCHANGED <<config, logFile, sent, status, data, services_info,
                   csvFile, csvFile0, opens, written, escaped, stages>>

\* Lines 194-195, except Exception as e: logging.error(...); main returns.
MainExcept ==
    /\ pc = "except"
    /\ IF Catches(exc)
       THEN /\ logs' = Append(logs, ErrorOccurredEntry(exc))
            /\ pc' = "done"
            /\ UNCHANGED escaped
       ELSE /\ escaped' = exc
            /\ pc' = "exited"
            /\ UNCHANGED logs
    /\ exc' = NoExc
    /\ UNCHANGED <<config, logFile, sent, status, data, services_info,
                   csvFile, csvFile0, opens, written, stages>>

Next ==
    \/ LoadConfig
    \/ SetupLogging
    \/ Fetch
    \/ Transform
    \/ CallExport
    \/ ExportOpen
    \/ ExportHeader
    \/ ExportRow
    \/ ExportClose
    \/ ExportFail
    \/ MainExcept

Spec == Init /\ [][Next]_vars

(***************************************************************************)
(* export_to_csv on its own: the records are drawn at the start and only   *)
(* the steps of export_to_csv run.                                         *)
(***************************************************************************)
\* Neighbour names: a plain one, one with a comma and a quote (which csv
\* must quote) and one that holds the ", " of the join.
CsvNames ==
    { <<"svc-b">>, <<"c", COMMA, QUOTE, "d">>, <<"x", COMMA, SPACE, "y">> }

\* The lists of up to MaxEdges neighbour names.
NameLists == UNION {[1..n -> CsvNames] : n \in 0..MaxEdges}

\* A list with its first name moved to the end.
Rotate(l) == IF l = <<>> THEN <<>> ELSE Tail(l) \o <<Head(l)>>

\* The i-th record handed to export_to_csv; its three edge lists are l,
\* l reversed and l rotated.  Records come sorted by numCalls_avg descending.
CsvRecord(i, l) ==
    [entityId |-> <<"e", DigitAtom(i)>>,
     name |-> <<"svc-", DigitAtom(i)>>,
     duration_p99 |-> 120 + i,
     errorCount_avg |-> i - 1,
     numCalls_avg |-> 900 - 100 * i,
     applicationType |-> NA,
     outgoingEdges_SERVICE |-> l,
     outgoingEdges_BACKEND |-> Reverse(l),
     incomingEdges_SERVICE |-> Rotate(l)]

InitCsv ==
    /\ pc = "open"
    /\ config = FullConfig
    /\ logFile = FullConfig["log_file"]
    /\ logs = <<>>
    /\ sent = <<>>
    /\ status = 0
    /\ data = EmptyDict
    /\ \E n \in 0..MaxRecords : \E f \in [1..n -> NameLists] :
           services_info = [i \in 1..n |-> CsvRecord(i, f[i])]
    /\ csvFile = OldFile
    /\ csvFile0 = csvFile
    /\ opens = 0
    /\ written = 0
    /\ exc = NoExc
    /\ escaped = NoExc
    /\ stages = <<"Export">>

NextCsv ==
    \/ ExportOpen
    \/ ExportHeader
    \/ ExportRow
    \/ ExportClose
    \/ ExportFail

SpecCsv == InitCsv /\ [][NextCsv]_vars

(***************************************************************************)
(* Reading the file back: csv.reader over the file opened with newline=''  *)
(* (default dialect, not strict), and str.split.  These are the reader's   *)
(* side of the round trip, not code of main.py.                            *)
(***************************************************************************)
IsNewline(c) == c \in {CR, LF}

\* The reader's state: its automaton state st, the field and the row read
\* so far, and the rows completed.
ReaderStart == [st |-> "start_record", fld |-> <<>>, row |-> <<>>, rows |-> <<>>]

\* The reader in state r at the start of a field, reading atom c.
ReadAtFieldStart(r, c) ==
    IF IsNewline(c) THEN [r EXCEPT !.st = "eat_crnl", !.fld = <<>>, !.row = Append(@, <<>>)]
    ELSE IF c = QUOTE THEN [r EXCEPT !.st = "in_quoted", !.fld = <<>>]
    ELSE IF c = COMMA THEN [r EXCEPT !.st = "start_field", !.fld = <<>>, !.row = Append(@, <<>>)]
    ELSE [r EXCEPT !.st = "in_field", !.fld = <<c>>]

\* The reader in state r at the start of a record, reading atom c.
ReadAtRecordStart(r, c) ==
    IF IsNewline(c) THEN [r EXCEPT !.st = "eat_crnl", !.fld = <<>>, !.row = <<>>]
    ELSE ReadAtFieldStart([r EXCEPT !.row = <<>>], c)

\* One atom read by csv.reader.
ReadAtom(r, c) ==
    CASE r.st = "start_record" -> ReadAtRecordStart(r, c)
      [] r.st = "start_field" -> ReadAtFieldStart(r, c)
      [] r.st = "in_field" ->
            IF IsNewline(c) THEN [r EXCEPT !.st = "eat_crnl", !.row = Append(@, r.fld), !.fld = <<>>]
            ELSE IF c = COMMA THEN [r EXCEPT !.st = "start_field", !.row = Append(@, r.fld), !.fld = <<>>]
            ELSE [r EXCEPT !.fld = Append(@, c)]
      [] r.st = "in_quoted" ->
            IF c = QUOTE THEN [r EXCEPT !.st = "quote_in_quoted"]
            ELSE [r EXCEPT !.fld = Append(@, c)]
      [] r.st = "quote_in_quoted" ->
            IF c = QUOTE THEN [r EXCEPT !.st = "in_quoted", !.fld = Append(@, QUOTE)]
            ELSE IF c = COMMA THEN [r EXCEPT !.st = "start_field", !.row = Append(@, r.fld), !.fld = <<>>]
            ELSE IF IsNewline(c) THEN [r EXCEPT !.st = "eat_crnl", !.row = Append(@, r.fld), !.fld = <<>>]
            ELSE [r EXCEPT !.st = "in_field", !.fld = Append(@, c)]
      [] r.st = "eat_crnl" ->
            IF IsNewline(c) THEN r
            ELSE ReadAtRecordStart([r EXCEPT !.rows = Append(@, r.row)], c)

RECURSIVE ReadRange(_, _, _, _)
\* The reader's state after atoms lo..hi of the file, read from state r.
\* The range is halved, and the state after the left half is computed (the
\* test on it) before the right half is read, so that the evaluation stays
\* shallow.
ReadRange(file, lo, hi, r) ==
    IF lo > hi THEN r
    ELSE IF lo = hi THEN ReadAtom(r, file[lo])
    ELSE LET mid == (lo + hi) \div 2
             left == ReadRange(file, lo, mid, r)
         IN  IF left.st # "" THEN ReadRange(file, mid + 1, hi, left) ELSE left

\* The rows at the end of the file: a record in progress is completed.
ReadEnd(r) ==
    IF r.st = "start_record" THEN r.rows
    ELSE IF r.st = "eat_crnl" THEN Append(r.rows, r.row)
    ELSE Append(r.rows, Append(r.row, r.fld))

\* list(csv.reader(file)).
ParseCsv(file) == ReadEnd(ReadRange(file, 1, Len(file), ReaderStart))

RECURSIVE Find(_, _, _)
\* The first index from i on where sep occurs in text, or 0.
Find(text, sep, i) ==
    IF i + Len(sep) - 1 > Len(text) THEN 0
    ELSE IF SubSeq(text, i, i + Len(sep) - 1) = sep THEN i
    ELSE Find(text, sep, i + 1)

RECURSIVE Split(_, _)
\* text.split(sep) for a non-empty sep: always at least one piece, so
\* ''.split(sep) is [''].
Split(text, sep) ==
    LET j == Find(text, sep, 1)
    IN  IF j = 0 THEN <<text>>
        ELSE <<SubSeq(text, 1, j - 1)>> \o Split(SubSeq(text, j + Len(sep), Len(text)), sep)

ContainsJoinSep(name) == Find(name, JoinSep, 1) # 0

(***************************************************************************)
(* Vocabulary of the properties.                                           *)
(***************************************************************************)
Last(s) == s[Len(s)]

InStages(stage) == \E i \in 1..Len(stages) : stages[i] = stage

\* The response was a 200 whose body holds data.entities.results.
HasResults == status = HttpOk /\ Has(data, "data")

\* data.entities.results of the response.
Results == data["data"]["entities"]["results"]

\* process_response_data has returned its list to main.
TransformReturned == InStages("Export")

\* process_response_data has raised and main has not handled it yet.
TransformRaised == pc = "except" /\ Last(stages) = "Transform"

\* The keys of a record of services_info.
RecordKeys ==
    {"entityId", "name", "duration_p99", "errorCount_avg", "numCalls_avg",
     "applicationType", "outgoingEdges_SERVICE", "outgoingEdges_BACKEND",
     "incomingEdges_SERVICE"}

EdgeFields == {"outgoingEdges_SERVICE", "outgoingEdges_BACKEND", "incomingEdges_SERVICE"}

\* The entity has every key process_response_data looks up without a default.
WellFormedEntity(e) ==
    /\ {"entityId", "name", "duration", "errorCount", "numCalls"} \subseteq DOMAIN e
    /\ Has(e["duration"], "p99") /\ Has(e["duration"]["p99"], "value")
    /\ Has(e["errorCount"], "avg") /\ Has(e["errorCount"]["avg"], "value")
    /\ Has(e["numCalls"], "avg") /\ Has(e["numCalls"]["avg"], "value")
    /\ \A f \in EdgeFields :
          /\ Has(e, f) /\ Has(e[f], "results")
          /\ \A k \in 1..Len(e[f]["results"]) :
                /\ Has(e[f]["results"][k], "neighbor")
                /\ Has(e[f]["results"][k]["neighbor"], "name")

\* The positions in services_info of the records with the entity's id.
PositionsOf(e) == {j \in 1..Len(services_info) : services_info[j]["entityId"] = e["entityId"]}

\* Record r holds what entity e holds, field by field.
PopulatedFrom(r, e) ==
    /\ DOMAIN r = RecordKeys
    /\ r["entityId"] = e["entityId"]
    /\ r["name"] = e["name"]
    /\ r["duration_p99"] = e["duration"]["p99"]["value"]
    /\ r["errorCount_avg"] = e["errorCount"]["avg"]["value"]
    /\ r["numCalls_avg"] = e["numCalls"]["avg"]["value"]
    /\ Has(e, "applicationType") => r["applicationType"] = e["applicationType"]
    /\ \A f \in EdgeFields :
          /\ Len(r[f]) = Len(e[f]["results"])
          /\ \A k \in 1..Len(r[f]) : r[f][k] = e[f]["results"][k]["neighbor"]["name"]

(***************************************************************************)
(* C1.  For a result list of N well-formed entities process_response_data  *)
(* returns (it does not raise), and it returns exactly N records: each     *)
(* entity has exactly one record, which has the nine fields, each holding  *)
(* the entity's value, the edge lists holding the neighbour names in the   *)
(* order received.                                                         *)
(***************************************************************************)
C1_OneRecordPerEntity ==
    /\ TransformRaised /\ HasResults => \E i \in 1..Len(Results) : ~WellFormedEntity(Results[i])
    /\ TransformReturned =>
          /\ Len(services_info) = Len(Results)
          /\ \A i \in 1..Len(Results) :
                /\ Cardinality(PositionsOf(Results[i])) = 1
                /\ \A j \in PositionsOf(Results[i]) : PopulatedFrom(services_info[j], Results[i])

\* Two entities with edges and different call counts went through the transformer.
C1_Witness ==
    /\ TransformReturned
    /\ Len(services_info) = 2
    /\ services_info[1]["entityId"] = Results[2]["entityId"]
    /\ Len(services_info[1]["outgoingEdges_SERVICE"]) = 2
    /\ Len(services_info[2]["incomingEdges_SERVICE"]) = 2

(***************************************************************************)
(* C2.  The list process_response_data returns is sorted by numCalls_avg   *)
(* descending (each record's key is at least its successor's), and the     *)
(* sort is stable: two records with equal keys stand in the order their    *)
(* entities had in the results list.                                       *)
(***************************************************************************)
EntityPosition(r) == CHOOSE i \in 1..Len(Results) : Results[i]["entityId"] = r["entityId"]

C2_SortedDescendingStable ==
    TransformReturned =>
        /\ \A j \in 1..(Len(services_info) - 1) :
              services_info[j]["numCalls_avg"] >= services_info[j + 1]["numCalls_avg"]
        /\ \A j, k \in 1..Len(services_info) :
              (j < k /\ services_info[j]["numCalls_avg"] = services_info[k]["numCalls_avg"])
                  => EntityPosition(services_info[j]) < EntityPosition(services_info[k])

\* Two entities with equal call counts were sorted and kept their input order.
C2_Witness ==
    /\ TransformReturned
    /\ Len(services_info) = 2
    /\ services_info[1]["numCalls_avg"] = services_info[2]["numCalls_avg"]
    /\ services_info[1]["entityId"] = Results[1]["entityId"]
    /\ services_info[2]["entityId"] = Results[2]["entityId"]

(***************************************************************************)
(* C5.  A record's applicationType is the sentinel "N/A" when its entity   *)
(* has no applicationType key, and only then: when the key is there the    *)
(* record holds the entity's value unchanged, null included.  No other     *)
(* field gets a default: a list is returned only when every entity has     *)
(* all its other fields.                                                   *)
(***************************************************************************)
C5_SentinelOnlyForMissingApplicationType ==
    TransformReturned =>
        \A i \in 1..Len(Results) :
            /\ WellFormedEntity(Results[i])
            /\ \A j \in PositionsOf(Results[i]) :
                  services_info[j]["applicationType"] =
                      IF Has(Results[i], "applicationType")
                      THEN Results[i]["applicationType"]
                      ELSE Str(<<"N/A">>)

\* One entity without the key and one whose applicationType is null.
C5_Witness ==
    /\ TransformReturned
    /\ Len(Results) = 2
    /\ ~Has(Results[1], "applicationType")
    /\ Has(Results[2], "applicationType") /\ Results[2]["applicationType"] = None
    /\ \A j \in PositionsOf(Results[1]) : services_info[j]["applicationType"] = Str(<<"N/A">>)

(***************************************************************************)
(* C3.  When the response status is not 200, get_graphql_data raises an    *)
(* error that carries the status and the query text and returns nothing;   *)
(* exactly one request was sent (no retry); the transformer never runs;    *)
(* and the output file is never opened, so it is as the run found it.      *)
(***************************************************************************)
CarriesStatusAndQuery(e) ==
    /\ e["type"] = "Exception"
    /\ e["status"] = status
    /\ e["query"] = sent[1]["json"]["query"]

C3_NonOkStatusFailsWithoutCsv ==
    (status # 0 /\ status # 200) =>
        /\ Len(sent) = 1
        /\ data = EmptyDict
        /\ ~InStages("Transform")
        /\ opens = 0
        /\ csvFile = csvFile0
        /\ pc \in {"except", "done"}
        /\ pc = "except" => CarriesStatusAndQuery(exc)
        /\ pc = "done" => CarriesStatusAndQuery(Last(logs)["detail"])

\* A run that got a 500 has ended, with an output file on disk from before.
C3_Witness ==
    /\ status = 500
    /\ pc = "done"
    /\ csvFile0 = OldFile
    /\ csvFile = OldFile

(***************************************************************************)
(* C6.  A failure raised during Fetch, Transform or Export is caught by    *)
(* main: its handler logs one "An error occurred" error entry that         *)
(* carries the cause, and the run ends normally.  Nothing runs after the   *)
(* failing stage (no request, no file access, no further stage, no         *)
(* retry), and once the fetch has begun no exception leaves main.          *)
(***************************************************************************)
ErrorOccurredCount == Cardinality({i \in 1..Len(logs) : logs[i]["message"] = "An error occurred"})

C6_State ==
    /\ InStages("Fetch") => escaped = NoExc /\ pc # "exited"
    /\ ErrorOccurredCount <= 1
    /\ pc = "except" => exc # NoExc /\ ErrorOccurredCount = 0
    /\ (pc = "done" /\ ErrorOccurredCount = 1) =>
          Last(logs)["message"] = "An error occurred" /\ Last(logs)["level"] = "ERROR"
    /\ (pc = "done" /\ ErrorOccurredCount = 0) =>
          Last(logs)["level"] = "INFO" /\ Last(stages) = "Export"

C6_Step ==
    /\ pc # "done"
    /\ pc = "except" =>
          /\ pc' = "done"
          /\ logs' = Append(logs, [level |-> "ERROR", message |-> "An error occurred",
                                   detail |-> exc])
          /\ UNCHANGED <<sent, status, data, services_info, csvFile, opens, written,
                         stages, escaped>>

C6_FailuresCaughtAndLogged == []C6_State /\ [][C6_Step]_vars

\* The transformer failed, main logged it and returned.
C6_Witness ==
    /\ pc = "done"
    /\ Last(stages) = "Transform"
    /\ ErrorOccurredCount = 1
    /\ Last(logs)["detail"]["type"] = "KeyError"
    /\ escaped = NoExc

(***************************************************************************)
(* C7.  A failure of open() or of a write in export_to_csv is logged as    *)
(* an error with its cause and raised again to the caller: export_to_csv   *)
(* does not return normally and never logs the success message after it,   *)
(* so the exception reaches main's handler.  The file is left as found     *)
(* (open failed), or emptied, or holding the header and a prefix of the    *)
(* rows.                                                                   *)
(***************************************************************************)
WriteFailures == {i \in 1..Len(logs) : logs[i]["message"] = "Failed to write CSV file"}

RECURSIVE RowsText(_)
\* The text of the rows of the first k records.
RowsText(k) == IF k = 0 THEN <<>> ELSE RowsText(k - 1) \o CsvRow(RowFields(services_info[k]))

C7_WriteFailureLoggedAndReraised ==
    /\ (pc = "except" /\ exc = OSError) => WriteFailures # {}
    /\ WriteFailures # {} =>
          /\ Cardinality(WriteFailures) = 1
          /\ \A i \in WriteFailures : logs[i]["level"] = "ERROR" /\ logs[i]["detail"] = OSError
          /\ \A i \in 1..Len(logs) :
                logs[i]["message"] # "Service dependency information has been successfully exported to"
          /\ pc \in {"except", "done"}
          /\ pc = "except" => exc = OSError
          /\ pc = "done" => Last(logs) = [level |-> "ERROR", message |-> "An error occurred",
                                          detail |-> OSError]
          /\ \/ opens = 0 /\ csvFile = csvFile0
             \/ opens = 1 /\ csvFile["exists"] /\ csvFile["content"] = <<>>
             \/ /\ opens = 1 /\ csvFile["exists"]
                /\ \E k \in 0..Len(services_info) :
                      csvFile["content"] = CsvRow(Headers) \o RowsText(k)

\* A write failed after the header and one of two rows; the run has ended.
C7_Witness ==
    /\ WriteFailures # {}
    /\ pc = "done"
    /\ Len(services_info) = 2
    /\ written = 1
    /\ csvFile0 = OldFile
    /\ csvFile["content"] = CsvRow(Headers) \o RowsText(1)

(***************************************************************************)
(* C8.  When an entity lacks a duration, errorCount or numCalls            *)
(* sub-object, or the p99/avg or value inside it, process_response_data    *)
(* substitutes nothing and skips nothing: it raises a KeyError for the     *)
(* first failing lookup and returns no list, not even for the entities     *)
(* before the bad one.  It does not handle the failure itself; the         *)
(* failure reaches main's handler, which logs it, and main returns: the    *)
(* export never starts and the output file is untouched.                   *)
(***************************************************************************)
MetricFields == <<"duration", "errorCount", "numCalls">>

MetricPresent(e, f) ==
    LET agg == IF f = "duration" THEN "p99" ELSE "avg"
    IN  Has(e, f) /\ Has(e[f], agg) /\ Has(e[f][agg], "value")

Defective(e) == \E k \in 1..3 : ~MetricPresent(e, MetricFields[k])

\* The key whose lookup fails first in a defective entity.
FailingKey(e) ==
    LET k == CHOOSE k \in 1..3 :
                 /\ ~MetricPresent(e, MetricFields[k])
                 /\ \A m \in 1..(k - 1) : MetricPresent(e, MetricFields[m])
        f == MetricFields[k]
        agg == IF f = "duration" THEN "p99" ELSE "avg"
    IN  IF ~Has(e, f) THEN f ELSE IF ~Has(e[f], agg) THEN agg ELSE "value"

FirstDefective ==
    Results[CHOOSE i \in 1..Len(Results) :
                /\ Defective(Results[i])
                /\ \A m \in 1..(i - 1) : ~Defective(Results[m])]

\* The transformer has run on a result list with a defective entity.
DefectTransformed ==
    /\ HasResults
    /\ InStages("Transform")
    /\ \E i \in 1..Len(Results) : Defective(Results[i])

\* The claim as it was made: the failure is an uncaught fault, so main
\* does not return normally.
C8_Original ==
    DefectTransformed =>
        /\ services_info = <<>>
        /\ ~InStages("Export")
        /\ pc = "except" => exc = [type |-> "KeyError", key |-> FailingKey(FirstDefective)]
        /\ pc # "done"

C8_DefectRaisesToMainHandler ==
    DefectTransformed =>
        /\ services_info = <<>>
        /\ ~InStages("Export")
        /\ opens = 0
        /\ csvFile = csvFile0
        /\ escaped = NoExc
        /\ pc \in {"except", "done"}
        /\ pc = "except" => exc = [type |-> "KeyError", key |-> FailingKey(FirstDefective)]
        /\ pc = "done" =>
              Last(logs) = [level |-> "ERROR", message |-> "An error occurred",
                            detail |-> [type |-> "KeyError",
                                        key |-> FailingKey(FirstDefective)]]

\* The second of two entities has no value in a metric; main has returned.
C8_Witness ==
    /\ DefectTransformed
    /\ Len(Results) = 2
    /\ ~Defective(Results[1])
    /\ FailingKey(Results[2]) = "value"
    /\ pc = "done"

StageOrder == <<"LoadConfig", "SetupLogging", "Fetch", "Transform", "Export">>

C10_StagesInOrder ==
    /\ Len(stages) <= Len(StageOrder)
    /\ \A i \in 1..Len(stages) : stages[i] = StageOrder[i]
    /\ InStages("SetupLogging") => DOMAIN config # {}
    /\ InStages("Fetch") => logFile # ""
    /\ Len(sent) <= 1
    /\ Len(sent) = 1 => logFile # "" /\ InStages("Fetch")
    /\ InStages("Transform") => status = 200 /\ Len(sent) = 1
    /\ InStages("Export") => HasResults /\ \A i \in 1..Len(Results) : WellFormedEntity(Results[i])
    /\ opens <= 1
    /\ csvFile # csvFile0 => opens = 1
    /\ opens = 1 =>
          /\ stages = StageOrder
          /\ status = 200
          /\ Len(services_info) = Len(Results)

\* A run went through every stage and wrote two rows.
C10_Witness ==
    /\ pc = "done"
    /\ stages = StageOrder
    /\ opens = 1
    /\ Len(sent) = 1
    /\ written = 2

(***************************************************************************)
(* C4.  Round trip of export_to_csv.  After an export of N records that    *)
(* did not fail, reading the file back with csv.reader gives the header    *)
(* and exactly N data rows in the order of the records, every row with     *)
(* exactly 9 columns; and each of the three joined-list columns of a       *)
(* non-empty list none of whose names holds ", " splits on ", " back into  *)
(* that list.  An empty list is written as the empty string, which does    *)
(* not split back into the empty list: ''.split(', ') is [''].             *)
(***************************************************************************)
EdgeColumn(col) ==
    CASE col = 7 -> "outgoingEdges_SERVICE"
      [] col = 8 -> "outgoingEdges_BACKEND"
      [] col = 9 -> "incomingEdges_SERVICE"

SepFree(names) == \A k \in 1..Len(names) : ~ContainsJoinSep(names[k])

ExportSucceeded == pc = "done" /\ WriteFailures = {} /\ opens = 1

\* The rows csv.reader yields from the output file.
RowsRead == ParseCsv(csvFile["content"])

\* rows are the header and one row per record, in order, 9 columns each.
RowsAndColumnsReadBack(rows) ==
    /\ Len(rows) = Len(services_info) + 1
    /\ rows[1] = Headers
    /\ \A i \in 1..Len(services_info) :
          /\ Len(rows[i + 1]) = 9
          /\ rows[i + 1][1] = services_info[i]["entityId"]

\* Every joined-list column of a list without ", " in its names (and, with
\* emptyToo false, of a non-empty list only) splits back into the list.
ListsSplitBack(rows, emptyToo) ==
    \A i \in 1..Len(services_info) : \A col \in 7..9 :
        LET names == services_info[i][EdgeColumn(col)]
        IN  (SepFree(names) /\ (emptyToo \/ names # <<>>))
                => Split(rows[i + 1][col], JoinSep) = names

\* An empty list comes back as the empty string, which splits into [''].
EmptyListsReadAsEmptyText(rows) ==
    \A i \in 1..Len(services_info) : \A col \in 7..9 :
        services_info[i][EdgeColumn(col)] = <<>>
            => /\ rows[i + 1][col] = <<>>
               /\ Split(rows[i + 1][col], JoinSep) = << <<>> >>

\* The claim as it was made: every list, the empty one included, splits back.
C4_Original ==
    ExportSucceeded =>
        LET rows == RowsRead
        IN  RowsAndColumnsReadBack(rows) /\ ListsSplitBack(rows, TRUE)

C4_RoundTripOfNonEmptyLists ==
    ExportSucceeded =>
        LET rows == RowsRead
        IN  /\ RowsAndColumnsReadBack(rows)
            /\ ListsSplitBack(rows, FALSE)
            /\ EmptyListsReadAsEmptyText(rows)

\* Two records were exported; a list of two names, one of them quoted by
\* csv for its comma and quote, came back from the first data row.
C4_Witness ==
    /\ ExportSucceeded
    /\ Len(services_info) = 2
    /\ services_info[1]["outgoingEdges_SERVICE"] = << <<"svc-b">>, <<"c", COMMA, QUOTE, "d">> >>
    /\ Split(ParseCsv(csvFile["content"])[2][7], JoinSep)
          = << <<"svc-b">>, <<"c", COMMA, QUOTE, "d">> >>
    /\ services_info[2]["outgoingEdges_SERVICE"] = <<>>

====
